---- MODULE Spec2Model ----
(***************************************************************************)
(* Model of generate_summary_pipeline (lecture_summarization/summarize.py): *)
(* topic extraction per chunk, per-(chunk, topic) summary accumulation,     *)
(* snapshot, HTML formatting with fallback, and PDF rendering.              *)
(*                                                                          *)
(* Text is a sequence of tokens (strings).  Python dicts are modelled as    *)
(* sequences of [topic, value] records in insertion order, which is the     *)
(* order dict.items() iterates in.  The language-model service is the       *)
(* environment: each call nondeterministically returns a value, returns     *)
(* None, or raises.                                                         *)
(***************************************************************************)
EXTENDS Integers, Sequences, FiniteSets, TLC

\* ---------------------------------------------------------------- bounds
\* chunks in the transcript; labels the extractor returns over a whole run
MaxChunks == 2
MaxLabels == 3

\* ------------------------------------------------------- input universes
Labels == {"A", "B"}
Summaries == {<<"x">>, <<"y">>}
HtmlResponses == {<<" ", "<p>", "h", "</p>", "\n">>}
ApiKeys == {"", "key"}
Whitespace == {" ", "\n", "\t"}

TopicLists == UNION {[1..n -> Labels] : n \in 0..MaxLabels}

\* chunk_text(): the splitter's output, one text per chunk, in order
ChunkLists == {[j \in 1..n |-> <<"chunk", j - 1>>] : n \in 0..MaxChunks}

VARIABLES api_key, chunks, pc,
          i, topic_map, known_topics,
          m, k, topic_summaries,
          snapshots,
          f, html_summaries,
          r, pdf, outputs,
          extract_calls, summary_calls, format_calls, last_result

inputs == <<api_key, chunks>>
extraction == <<i, topic_map, known_topics>>
rendering == <<r, pdf, outputs>>

vars == <<api_key, chunks, pc, i, topic_map, known_topics, m, k,
          topic_summaries, snapshots, f, html_summaries, r, pdf, outputs,
          extract_calls, summary_calls, format_calls, last_result>>

\* ---------------------------------------------------------- dict helpers
RECURSIVE SeqToSet(_)
SeqToSet(s) == IF s = <<>> THEN {} ELSE {Head(s)} \cup SeqToSet(Tail(s))

Keys(d) == [j \in 1..Len(d) |-> d[j].topic]
KeySet(d) == {d[j].topic : j \in 1..Len(d)}

\* topic in d
DictHas(d, topic) == topic \in KeySet(d)

\* d[topic] for a present key
DictValue(d, topic) == d[CHOOSE j \in 1..Len(d) : d[j].topic = topic].value

\* d.get(topic): <<>> is None, <<v>> is the stored value
DictGet(d, topic) == IF DictHas(d, topic) THEN <<DictValue(d, topic)>> ELSE <<>>

\* d[topic] = value: an existing key keeps its position, a new key goes last
DictSet(d, topic, value) ==
    IF DictHas(d, topic)
    THEN [j \in 1..Len(d) |->
            IF d[j].topic = topic THEN [topic |-> topic, value |-> value] ELSE d[j]]
    ELSE Append(d, [topic |-> topic, value |-> value])

\* ------------------------------------------------------- pure code pieces
\* the labels of all Topic Map entries, chunk by chunk
RECURSIVE Flatten(_)
Flatten(tm) == IF tm = <<>> THEN <<>> ELSE Head(tm).topics \o Flatten(Tail(tm))

\* for topic in topics: if topic not in known_topics: known_topics.append(topic)
RegisterAll(known, topics) == known \o topics

RECURSIVE Register(_, _)
Register(known, topics) ==
    IF topics = <<>> THEN known
    ELSE Register(IF Head(topics) \in SeqToSet(known) THEN known
                  ELSE Append(known, Head(topics)),
                  Tail(topics))

\* others = [t for t in topics if t != topic]
Others(topics, topic) == SelectSeq(topics, LAMBDA t : t # topic)

\* if topic in topic_summaries: += "\n" + summary  else: = summary
AccumulateReplace(ts, topic, summary) == DictSet(ts, topic, summary)

Accumulate(ts, topic, summary) ==
    IF DictHas(ts, topic)
    THEN DictSet(ts, topic, DictValue(ts, topic) \o <<"\n">> \o summary)
    ELSE DictSet(ts, topic, summary)

\* chunk_content = chunks[chunk_index] for the m-th item of topic_map
ChunkContentByPosition(cs, tm, mm) == cs[mm]

ChunkContent(cs, tm, mm) == cs[tm[mm].chunk_index + 1]

\* str.strip()
RECURSIVE LStrip(_)
LStrip(s) == IF s # <<>> /\ Head(s) \in Whitespace THEN LStrip(Tail(s)) ELSE s
RECURSIVE RStrip(_)
RStrip(s) == IF s # <<>> /\ s[Len(s)] \in Whitespace
             THEN RStrip(SubSeq(s, 1, Len(s) - 1)) ELSE s
Strip(s) == RStrip(LStrip(s))

\* f"<p>{raw_summary}</p>"
FallbackRaw(raw_summary) == raw_summary

Fallback(raw_summary) == <<"<p>">> \o raw_summary \o <<"</p>">>

\* f"<h2>{topic}</h2>"
Heading(topic) == <<"<h2>", topic, "</h2>">>

\* ------------------------------------------------------------------ Init
Init ==
    /\ api_key \in ApiKeys
    /\ chunks \in ChunkLists
    /\ pc = "start"
    /\ i = 0
    /\ topic_map = <<>>
    /\ known_topics = <<>>
    /\ m = 1
    /\ k = 1
    /\ topic_summaries = <<>>
    /\ snapshots = <<>>
    /\ f = 1
    /\ html_summaries = <<>>
    /\ r = 1
    /\ pdf = <<>>
    /\ outputs = <<>>
    /\ extract_calls = <<>>
    /\ summary_calls = <<>>
    /\ format_calls = <<>>
    /\ last_result = "ctl"

\* --------------------------------------------------------------- actions
\* last_result is what the model call made by the step did ("ok", "none",
\* "raise"); "ctl" for a step that makes no call.

\* if not api_key: raise ValueError
MissingKey ==
    /\ pc = "start"
    /\ api_key = ""
    /\ pc' = "aborted"
    /\ last_result' = "ctl"
    /\ UNCHANGED <<inputs, extraction, m, k, topic_summaries, snapshots, f,
                   html_summaries, rendering, extract_calls, summary_calls,
                   format_calls>>

\* load the transcript, chunk it, topic_map = [], known_topics = []
Start ==
    /\ pc = "start"
    /\ api_key # ""
    /\ pc' = "extract"
    /\ i' = 0
    /\ topic_map' = <<>>
    /\ known_topics' = <<>>
    /\ last_result' = "ctl"
    /\ UNCHANGED <<inputs, m, k, topic_summaries, snapshots, f,
                   html_summaries, rendering, extract_calls, summary_calls,
                   format_calls>>

InExtract ==
    /\ pc = "extract"
    /\ i < Len(chunks)

\* the prompt sent for chunk i, with how the call ended
ExtractRequest(ok) == [chunk_index |-> i, chunk |-> chunks[i + 1], ok |-> ok]

\* one iteration of the extraction loop whose try body completes
ExtractSuccess ==
    /\ InExtract
    /\ \E topics \in TopicLists :
         /\ Len(Flatten(topic_map)) + Len(topics) <= MaxLabels
         /\ topic_map' = Append(topic_map, [chunk_index |-> i, topics |-> topics])
         /\ known_topics' = Register(known_topics, topics)
    /\ extract_calls' = Append(extract_calls, ExtractRequest(TRUE))
    /\ i' = i + 1
    /\ last_result' = "ok"
    /\ UNCHANGED <<inputs, pc, m, k, topic_summaries, snapshots, f,
                   html_summaries, rendering, summary_calls, format_calls>>

\* one iteration whose invoke raises, or returns None so that parsed.topics
\* raises: caught by the except clause, next chunk
ExtractFailureAbort ==
    /\ InExtract
    /\ extract_calls' = Append(extract_calls, ExtractRequest(FALSE))
    /\ \E kind \in {"none", "raise"} : last_result' = kind
    /\ pc' = "aborted"
    /\ UNCHANGED <<inputs, extraction, m, k, topic_summaries, snapshots, f,
                   html_summaries, rendering, summary_calls, format_calls>>

ExtractFailure ==
    /\ InExtract
    /\ extract_calls' = Append(extract_calls, ExtractRequest(FALSE))
    /\ \E kind \in {"none", "raise"} : last_result' = kind
    /\ i' = i + 1
    /\ UNCHANGED <<inputs, pc, topic_map, known_topics, m, k, topic_summaries,
                   snapshots, f, html_summaries, rendering, summary_calls,
                   format_calls>>

\* the extraction loop is exhausted; topic_summaries = {} and the
\* summarization loop starts at the first item of topic_map
ExtractDone ==
    /\ pc = "extract"
    /\ i = Len(chunks)
    /\ pc' = "summarize"
    /\ m' = 1
    /\ k' = 1
    /\ topic_summaries' = <<>>
    /\ last_result' = "ctl"
    /\ UNCHANGED <<inputs, extraction, snapshots, f, html_summaries,
                   rendering, extract_calls, summary_calls, format_calls>>

InSummarize ==
    /\ pc = "summarize"
    /\ m <= Len(topic_map)
    /\ k <= Len(topic_map[m].topics)

\* the prompt built for the k-th topic of the m-th item, with how the call
\* ended (summary is the returned TopicSummary.summary when ok)
SummaryRequest(ok, summary) ==
    LET item == topic_map[m]
        topic == item.topics[k]
    IN [chunk_index |-> item.chunk_index,
        pos |-> k,
        topic |-> topic,
        others |-> Others(item.topics, topic),
        previous |-> DictGet(topic_summaries, topic),
        chunk_content |-> ChunkContent(chunks, topic_map, m),
        ok |-> ok,
        summary |-> summary]

\* invoke returns a TopicSummary
SummarizeSuccess ==
    /\ InSummarize
    /\ \E summary \in Summaries :
         /\ topic_summaries' =
                Accumulate(topic_summaries, topic_map[m].topics[k], summary)
         /\ summary_calls' = Append(summary_calls, SummaryRequest(TRUE, summary))
    /\ k' = k + 1
    /\ last_result' = "ok"
    /\ UNCHANGED <<inputs, pc, extraction, m, snapshots, f, html_summaries,
                   rendering, extract_calls, format_calls>>

\* invoke returns None: warning, continue
SummarizeNoneStore ==
    /\ InSummarize
    /\ topic_summaries' =
           Accumulate(topic_summaries, topic_map[m].topics[k], <<"None">>)
    /\ summary_calls' = Append(summary_calls, SummaryRequest(FALSE, <<>>))
    /\ k' = k + 1
    /\ last_result' = "none"
    /\ UNCHANGED <<inputs, pc, extraction, m, snapshots, f, html_summaries,
                   rendering, extract_calls, format_calls>>

SummarizeNone ==
    /\ InSummarize
    /\ summary_calls' = Append(summary_calls, SummaryRequest(FALSE, <<>>))
    /\ k' = k + 1
    /\ last_result' = "none"
    /\ UNCHANGED <<inputs, pc, extraction, m, topic_summaries, snapshots, f,
                   html_summaries, rendering, extract_calls, format_calls>>

\* invoke raises: caught, logged with the topic name, next topic
SummarizeExceptionClear ==
    /\ InSummarize
    /\ summary_calls' = Append(summary_calls, SummaryRequest(FALSE, <<>>))
    /\ topic_summaries' =
           SelectSeq(topic_summaries, LAMBDA e : e.topic # topic_map[m].topics[k])
    /\ k' = k + 1
    /\ last_result' = "raise"
    /\ UNCHANGED <<inputs, pc, extraction, m, snapshots, f, html_summaries,
                   rendering, extract_calls, format_calls>>

SummarizeException ==
    /\ InSummarize
    /\ summary_calls' = Append(summary_calls, SummaryRequest(FALSE, <<>>))
    /\ k' = k + 1
    /\ last_result' = "raise"
    /\ UNCHANGED <<inputs, pc, extraction, m, topic_summaries, snapshots, f,
                   html_summaries, rendering, extract_calls, format_calls>>

\* the inner loop over an item's topics is exhausted: next item
NextItem ==
    /\ pc = "summarize"
    /\ m <= Len(topic_map)
    /\ k > Len(topic_map[m].topics)
    /\ m' = m + 1
    /\ k' = 1
    /\ last_result' = "ctl"
    /\ UNCHANGED <<inputs, pc, extraction, topic_summaries, snapshots, f,
                   html_summaries, rendering, extract_calls, summary_calls,
                   format_calls>>

\* the outer loop over topic_map is exhausted
SummarizeDone ==
    /\ pc = "summarize"
    /\ m > Len(topic_map)
    /\ pc' = "snapshot"
    /\ last_result' = "ctl"
    /\ UNCHANGED <<inputs, extraction, m, k, topic_summaries, snapshots, f,
                   html_summaries, rendering, extract_calls, summary_calls,
                   format_calls>>

\* json.dump(topic_summaries, f); html_summaries = {}
WriteSnapshot ==
    /\ pc = "snapshot"
    /\ snapshots' = Append(snapshots, topic_summaries)
    /\ html_summaries' = <<>>
    /\ f' = 1
    /\ pc' = "format"
    /\ last_result' = "ctl"
    /\ UNCHANGED <<inputs, extraction, m, k, topic_summaries, rendering,
                   extract_calls, summary_calls, format_calls>>

InFormat ==
    /\ pc = "format"
    /\ f <= Len(topic_summaries)

\* generate_html_prompt(topic, raw_summary), with how the call ended
FormatRequest(ok) ==
    [topic |-> topic_summaries[f].topic,
     raw_summary |-> topic_summaries[f].value,
     ok |-> ok]

\* llm.invoke returns a response: html = response.content.strip()
FormatSuccess ==
    /\ InFormat
    /\ \E content \in HtmlResponses :
         html_summaries' =
             DictSet(html_summaries, topic_summaries[f].topic, Strip(content))
    /\ format_calls' = Append(format_calls, FormatRequest(TRUE))
    /\ f' = f + 1
    /\ last_result' = "ok"
    /\ UNCHANGED <<inputs, pc, extraction, m, k, topic_summaries, snapshots,
                   rendering, extract_calls, summary_calls>>

\* llm.invoke raises: html_summaries[topic] = f"<p>{raw_summary}</p>"
FormatFailureSkip ==
    /\ InFormat
    /\ format_calls' = Append(format_calls, FormatRequest(FALSE))
    /\ f' = f + 1
    /\ last_result' = "raise"
    /\ UNCHANGED <<inputs, pc, extraction, m, k, topic_summaries, snapshots,
                   html_summaries, rendering, extract_calls, summary_calls>>

FormatFailure ==
    /\ InFormat
    /\ html_summaries' =
           DictSet(html_summaries, topic_summaries[f].topic,
                   Fallback(topic_summaries[f].value))
    /\ format_calls' = Append(format_calls, FormatRequest(FALSE))
    /\ f' = f + 1
    /\ last_result' = "raise"
    /\ UNCHANGED <<inputs, pc, extraction, m, k, topic_summaries, snapshots,
                   rendering, extract_calls, summary_calls>>

\* the formatting loop is exhausted; a page is added and rendering starts
FormatDone ==
    /\ pc = "format"
    /\ f > Len(topic_summaries)
    /\ pc' = "render"
    /\ r' = 1
    /\ pdf' = <<>>
    /\ last_result' = "ctl"
    /\ UNCHANGED <<inputs, extraction, m, k, topic_summaries, snapshots, f,
                   html_summaries, outputs, extract_calls, summary_calls,
                   format_calls>>

\* pdf.write_html(f"<h2>{topic}</h2>"); pdf.write_html(html)
RenderTopic ==
    /\ pc = "render"
    /\ r <= Len(html_summaries)
    /\ pdf' = Append(pdf, [topic |-> html_summaries[r].topic,
                           heading |-> Heading(html_summaries[r].topic),
                           body |-> html_summaries[r].value])
    /\ r' = r + 1
    /\ last_result' = "ctl"
    /\ UNCHANGED <<inputs, pc, extraction, m, k, topic_summaries, snapshots,
                   f, html_summaries, outputs, extract_calls, summary_calls,
                   format_calls>>

\* pdf.output(pdf_path); return pdf_path
OutputPdf ==
    /\ pc = "render"
    /\ r > Len(html_summaries)
    /\ outputs' = Append(outputs, pdf)
    /\ pc' = "done"
    /\ last_result' = "ctl"
    /\ UNCHANGED <<inputs, extraction, m, k, topic_summaries, snapshots, f,
                   html_summaries, r, pdf, extract_calls, summary_calls,
                   format_calls>>

Next ==
    \/ MissingKey
    \/ Start
    \/ ExtractSuccess
    \/ ExtractFailure
    \/ ExtractDone
    \/ SummarizeSuccess
    \/ SummarizeNone
    \/ SummarizeException
    \/ NextItem
    \/ SummarizeDone
    \/ WriteSnapshot
    \/ FormatSuccess
    \/ FormatFailure
    \/ FormatDone
    \/ RenderTopic
    \/ OutputPdf

Spec == Init /\ [][Next]_vars

\* the run is one synchronous thread of blocking calls: a step that can be
\* taken is eventually taken
FairSpec == Init /\ [][Next]_vars /\ WF_vars(Next)

TypeOK ==
    /\ pc \in {"start", "aborted", "extract", "summarize", "snapshot",
               "format", "render", "done"}
    /\ i \in 0..Len(chunks)
    /\ Len(topic_map) <= Len(chunks)

\* ----------------------------------------------------- property helpers
IsPrefix(s, t) == Len(s) <= Len(t) /\ SubSeq(t, 1, Len(s)) = s

\* the elements of s[1..j] that have no equal element before them, in order
RECURSIVE FirstSeen(_, _)
FirstSeen(s, j) ==
    IF j = 0 THEN <<>>
    ELSE IF \A h \in 1..(j - 1) : s[h] # s[j]
         THEN Append(FirstSeen(s, j - 1), s[j])
         ELSE FirstSeen(s, j - 1)

\* the summaries returned by the successful calls for a topic among the
\* first n calls, in call order
RECURSIVE ReturnedFor(_, _)
ReturnedFor(topic, n) ==
    IF n = 0 THEN <<>>
    ELSE IF summary_calls[n].topic = topic /\ summary_calls[n].ok
         THEN Append(ReturnedFor(topic, n - 1), summary_calls[n].summary)
         ELSE ReturnedFor(topic, n - 1)

\* "\n".join(parts)
RECURSIVE JoinNewline(_)
JoinNewline(parts) ==
    IF parts = <<>> THEN <<>>
    ELSE IF Len(parts) = 1 THEN parts[1]
         ELSE parts[1] \o <<"\n">> \o JoinNewline(Tail(parts))

\* all (chunk_index, pos) pairs of a Topic Map prefix, in loop order
RECURSIVE Units(_)
Units(tm) ==
    IF tm = <<>> THEN <<>>
    ELSE [p \in 1..Len(Head(tm).topics) |->
             [chunk_index |-> Head(tm).chunk_index, pos |-> p,
              topic |-> Head(tm).topics[p]]]
         \o Units(Tail(tm))

UnitOf(call) ==
    [chunk_index |-> call.chunk_index, pos |-> call.pos, topic |-> call.topic]

Rendered == outputs[1]
RenderedTopics == [j \in 1..Len(Rendered) |-> Rendered[j].topic]

AfterSummarize == pc \in {"snapshot", "format", "render", "done"}

\* ------------------------------------------------------------------ C1
\* C1: in every completed run the headings written to the document are the
\* Topic Registry (known_topics) restricted to the topics that have an
\* accumulated summary, in registry order.
C1_HeadingsInRegistryOrder ==
    pc = "done" =>
        RenderedTopics =
            SelectSeq(known_topics, LAMBDA t : DictHas(topic_summaries, t))

\* ------------------------------------------------------------------ C2
\* C2: the Topic Registry holds exactly the distinct labels of the Topic
\* Map, each once, in order of first appearance (chunks ascending, topics in
\* extractor-return order); failed chunks add nothing, so the Topic Map has
\* one entry per successful extraction, in chunk order.
C2_RegistryFirstSeenOrder ==
    /\ known_topics = FirstSeen(Flatten(topic_map), Len(Flatten(topic_map)))
    /\ [j \in 1..Len(topic_map) |-> topic_map[j].chunk_index]
         = LET okCalls == SelectSeq(extract_calls, LAMBDA c : c.ok)
           IN [j \in 1..Len(okCalls) |-> okCalls[j].chunk_index]

C2_Witness ==
    /\ pc = "summarize"
    /\ Len(topic_map) = 2
    /\ topic_map[1].topics = <<"A">>
    /\ topic_map[2].topics = <<"A", "B">>
    /\ known_topics = <<"A", "B">>

\* ------------------------------------------------------------------ C3
\* C3: topic_summaries has an entry for a label iff some summarization call
\* for that label has returned a summary; when every call returned None or
\* raised, the snapshot is the empty map and nothing is formatted or rendered.
C3_EntryIffSomeCallSucceeded ==
    /\ \A t \in Labels :
         DictHas(topic_summaries, t) <=>
            \E j \in 1..Len(summary_calls) :
                summary_calls[j].topic = t /\ summary_calls[j].ok
    /\ (pc = "done" /\ \A j \in 1..Len(summary_calls) : ~summary_calls[j].ok)
         => /\ snapshots = << <<>> >>
            /\ format_calls = <<>>
            /\ outputs = << <<>> >>

C3_Witness ==
    /\ pc = "done"
    /\ Len(summary_calls) >= 2
    /\ \A j \in 1..Len(summary_calls) : ~summary_calls[j].ok
    /\ topic_summaries = <<>>
    /\ snapshots = << <<>> >>

\* ------------------------------------------------------------------ C4
\* C4: a step whose summarization call returns None or raises leaves
\* topic_summaries unchanged and moves on to the next topic; a step whose
\* extraction call fails leaves topic_map and known_topics unchanged.
C4_FailedUnitChangesNothing ==
    [][ /\ (/\ Len(summary_calls') = Len(summary_calls) + 1
            /\ last_result' \in {"none", "raise"})
           => /\ topic_summaries' = topic_summaries
              /\ pc' = "summarize" /\ m' = m /\ k' = k + 1
        /\ (/\ Len(extract_calls') = Len(extract_calls) + 1
            /\ last_result' \in {"none", "raise"})
           => /\ topic_map' = topic_map
              /\ known_topics' = known_topics
              /\ pc' = "extract" /\ i' = i + 1 ]_vars

C4_Witness ==
    /\ pc = "summarize"
    /\ last_result = "raise"
    /\ summary_calls # <<>>
    /\ LET last == summary_calls[Len(summary_calls)]
       IN ~last.ok /\ DictHas(topic_summaries, last.topic)
    /\ \E j \in 1..Len(extract_calls) : ~extract_calls[j].ok

\* ------------------------------------------------------------------ C5
\* C5: a step whose formatting call raises sets the Formatted Body of that
\* topic to "<p>" + raw summary + "</p>", leaves the other bodies as they
\* were, and moves on to the next topic.
C5_FormatFallback ==
    [][ (/\ Len(format_calls') = Len(format_calls) + 1
         /\ ~format_calls'[Len(format_calls')].ok)
        => LET call == format_calls'[Len(format_calls')]
           IN /\ call.raw_summary = DictValue(topic_summaries, call.topic)
              /\ DictGet(html_summaries', call.topic)
                   = << <<"<p>">> \o call.raw_summary \o <<"</p>">> >>
              /\ \A t \in Labels \ {call.topic} :
                   DictGet(html_summaries', t) = DictGet(html_summaries, t)
              /\ pc' = "format" /\ f' = f + 1 ]_vars

C5_Witness ==
    /\ pc = "render"
    /\ Len(format_calls) = 2
    /\ format_calls[1].ok
    /\ ~format_calls[2].ok
    /\ format_calls[2].raw_summary = <<"x", "\n", "y">>
    /\ DictGet(html_summaries, format_calls[2].topic)
         = << <<"<p>", "x", "\n", "y", "</p>">> >>

\* ------------------------------------------------------------------ C6
\* C6: in a completed run the topics with a Formatted Body are exactly the
\* keys of topic_summaries, each was sent to the formatter, and the document
\* has exactly one section per such topic: its heading followed by its body.
C6_NoTopicDroppedOrDuplicated ==
    pc = "done" =>
        /\ KeySet(html_summaries) = KeySet(topic_summaries)
        /\ Len(html_summaries) = Cardinality(KeySet(topic_summaries))
        /\ \A t \in KeySet(topic_summaries) :
             /\ \E j \in 1..Len(format_calls) : format_calls[j].topic = t
             /\ Cardinality({j \in 1..Len(Rendered) : Rendered[j].topic = t}) = 1
        /\ \A j \in 1..Len(Rendered) :
             /\ Rendered[j].topic \in KeySet(topic_summaries)
             /\ Rendered[j].heading = <<"<h2>", Rendered[j].topic, "</h2>">>
             /\ Rendered[j].body = DictValue(html_summaries, Rendered[j].topic)

C6_Witness ==
    /\ pc = "done"
    /\ Len(topic_summaries) = 2
    /\ Len(Rendered) = 2
    /\ \E j \in 1..2 : format_calls[j].ok
    /\ \E j \in 1..2 : ~format_calls[j].ok

\* ------------------------------------------------------------------ C7
\* C7: with a credential, whatever calls fail, the run reaches the end; a
\* completed run has called the extractor once per chunk, the summarizer
\* once per position of every Topic Map entry, the formatter once per
\* accumulated topic, and has written one snapshot and one document.
C7_CompletedRunCounts ==
    pc = "done" =>
        /\ [j \in 1..Len(extract_calls) |-> extract_calls[j].chunk_index]
             = [j \in 1..Len(chunks) |-> j - 1]
        /\ [j \in 1..Len(summary_calls) |-> UnitOf(summary_calls[j])]
             = Units(topic_map)
        /\ [j \in 1..Len(format_calls) |-> format_calls[j].topic]
             = Keys(topic_summaries)
        /\ Len(snapshots) = 1
        /\ Len(outputs) = 1

\* C7: failures of individual model calls never abort the run: with a
\* credential the run always reaches "done", only a missing credential
\* aborts, and a completed run made every call and write exactly once.
C7_FailuresNeverAbort ==
    /\ (api_key # "") ~> (pc = "done")
    /\ [](pc = "aborted" => api_key = "")
    /\ []C7_CompletedRunCounts

C7_Witness ==
    /\ pc = "done"
    /\ \E j \in 1..Len(extract_calls) : ~extract_calls[j].ok
    /\ \E j \in 1..Len(summary_calls) : ~summary_calls[j].ok
    /\ \E j \in 1..Len(summary_calls) : summary_calls[j].ok
    /\ \E j \in 1..Len(format_calls) : ~format_calls[j].ok

\* ------------------------------------------------------------------ C8
\* C8: once the summarization loop is over, every topic label attributed to
\* a successfully extracted chunk has had exactly one summarization request
\* for that (chunk, topic) pair, also when the extractor returned the label
\* more than once.
C8_OneRequestPerChunkTopic ==
    AfterSummarize =>
        \A e \in 1..Len(topic_map) :
            \A t \in SeqToSet(topic_map[e].topics) :
                Cardinality({j \in 1..Len(summary_calls) :
                    /\ summary_calls[j].chunk_index = topic_map[e].chunk_index
                    /\ summary_calls[j].topic = t}) = 1

\* ------------------------------------------------------------------ C9
\* C9: every step keeps each existing value of topic_summaries as a prefix
\* of its new value; a successful call returning S turns V into V "\n" S or
\* creates the entry as S; each value is the newline-join of the summaries
\* returned for its topic, which were returned in ascending chunk order.
C9_StepAppends ==
    /\ \A t \in KeySet(topic_summaries) :
         /\ DictHas(topic_summaries', t)
         /\ IsPrefix(DictValue(topic_summaries, t), DictValue(topic_summaries', t))
    /\ (Len(summary_calls') = Len(summary_calls) + 1
          /\ summary_calls'[Len(summary_calls')].ok)
       => LET call == summary_calls'[Len(summary_calls')]
          IN DictValue(topic_summaries', call.topic)
               = IF DictHas(topic_summaries, call.topic)
                 THEN DictValue(topic_summaries, call.topic)
                        \o <<"\n">> \o call.summary
                 ELSE call.summary

C9_AppendOnly ==
    /\ [][C9_StepAppends]_vars
    /\ [](\A t \in KeySet(topic_summaries) :
            DictValue(topic_summaries, t)
              = JoinNewline(ReturnedFor(t, Len(summary_calls))))
    /\ [](\A j \in 1..Len(summary_calls) : \A h \in 1..(j - 1) :
            summary_calls[h].chunk_index <= summary_calls[j].chunk_index)

C9_Witness ==
    /\ DictGet(topic_summaries, "A") = << <<"x", "\n", "y">> >>
    /\ \E j \in 1..Len(summary_calls) :
         /\ summary_calls[j].topic = "A"
         /\ summary_calls[j].chunk_index = 1
         /\ summary_calls[j].previous = << <<"x">> >>
         /\ summary_calls[j].summary = <<"y">>
    /\ DictHas(topic_summaries, "B")

\* ------------------------------------------------------------------ C10
\* C10: the summarization calls made so far are the (chunk, position) units
\* of the Topic Map in loop order up to the current position; each carries
\* the text of the chunk its topics were extracted from, and as previous
\* summary the newline-join of the summaries already returned for its topic
\* (absent when there is none).
C10_CallOrderAndContext ==
    /\ IsPrefix([j \in 1..Len(summary_calls) |-> UnitOf(summary_calls[j])],
                Units(topic_map))
    /\ AfterSummarize => Len(summary_calls) = Len(Units(topic_map))
    /\ \A j \in 1..Len(summary_calls) :
         LET call == summary_calls[j]
             before == ReturnedFor(call.topic, j - 1)
         IN /\ call.chunk_content = chunks[call.chunk_index + 1]
            /\ \E e \in 1..Len(extract_calls) :
                 /\ extract_calls[e].ok
                 /\ extract_calls[e].chunk_index = call.chunk_index
                 /\ extract_calls[e].chunk = call.chunk_content
            /\ call.previous =
                 IF before = <<>> THEN <<>> ELSE <<JoinNewline(before)>>
            /\ \A h \in 1..(j - 1) :
                 \/ summary_calls[h].chunk_index < call.chunk_index
                 \/ /\ summary_calls[h].chunk_index = call.chunk_index
                    /\ summary_calls[h].pos < call.pos

C10_Witness ==
    /\ Len(chunks) = 2
    /\ Len(extract_calls) = 2
    /\ ~extract_calls[1].ok
    /\ Len(summary_calls) = 2
    /\ summary_calls[1].ok
    /\ summary_calls[2].chunk_index = 1
    /\ summary_calls[2].chunk_content = <<"chunk", 1>>
    /\ summary_calls[2].topic = summary_calls[1].topic
    /\ summary_calls[2].previous = <<summary_calls[1].summary>>

====
